---- MODULE Spec2Model ----
(***************************************************************************)
(* Federated GAN training orchestration (gans/tff_gans.py).                *)
(*                                                                         *)
(* The model follows one training context from its construction           *)
(* (GanFnsAndTypes.__attrs_post_init__) through build_gan_training_process *)
(* and the rounds of the resulting iterative process.  A round is split    *)
(* into the steps of the federated computation run_one_round: broadcast,   *)
(* one client step per client (in any order), the aggregation process's    *)
(* next, the two federated sums and the server step.                       *)
(*                                                                         *)
(* Tensors are abstracted to exact rationals <<numerator, denominator>>;   *)
(* <<0, 0>> stands for NaN.                                                *)
(***************************************************************************)
EXTENDS Integers, Sequences, FiniteSets, TLC

\* ------------------------------------------------------------------ bounds
NumClients == 3
MaxRounds == 2
\* the dummy batches: the rank of a leaf and the size of a dimension
MaxRank == 2
MaxDim == 2

Clients == 1..NumClients

\* ------------------------------------------------------------------- state
VARIABLES
  config,          \* the arguments of GanFnsAndTypes
  pc,              \* "new", "config_error", "context", "build_error", "process",
                   \* "idle", "round"
  gan,             \* the GanFnsAndTypes object
  error,           \* the error raised by the last operation
  client_data,     \* the clients' datasets
  server_data,     \* the server's generator inputs
  server_state,    \* the latest ServerState the caller holds
  rounds,          \* invocations of run_one_round so far
  round_in,        \* run_one_round: the server_state argument
  client_input,    \* the broadcast value at each client
  client_args,     \* the from_server argument each client step was called with
  client_outputs,  \* the outputs of the client steps
  arrived,         \* the clients whose step has finished
  steps,           \* the steps of the round that have run
  consumed,        \* per step, the clients whose output it has read
  aggregation_args,    \* the arguments of aggregation_process.next
  aggregation_output,  \* what it returned
  sums,            \* the federated sums of update_weight and counters
  server_args,     \* the arguments of the server step
  noise,           \* the noise the privacy query drew in this round
  outcome,         \* of the last round: "none", "ok", "failed", "rejected"
  log,             \* completed rounds: [in, out, noise]
  reruns,          \* TRUE once a round completed on an input already in log
  next_chain,      \* next applied to initialize() once per round of the lineage
  chain_ok,        \* server_state descends from initialize() by rounds only
  chain_len,       \* the number of rounds of that descent
  round_chain,     \* the candidate [state, ok, len] of the running round
  used_processes,  \* the processes initialize and next were called on
  model_instances, \* the models the factories returned, in the order of the calls
  models_passed,   \* per built computation, the models its body handed on
  built,           \* build_gan_training_process: what it built, and the types
  last_call        \* the last invocation of a built computation

\* --------------------------------------------------- float32 as rationals
Abs(x) == IF x < 0 THEN -x ELSE x

RECURSIVE Gcd(_, _)
Gcd(a, b) == IF b = 0 THEN a ELSE Gcd(b, a % b)

NaN == <<0, 0>>

Frac(n, d) ==
  IF d = 0 THEN NaN
  ELSE LET g == Gcd(Abs(n), Abs(d))
           s == IF d < 0 THEN -1 ELSE 1
       IN  <<(s * n) \div g, (s * d) \div g>>

IsNaN(a) == a[2] = 0

FAdd(a, b) ==
  IF IsNaN(a) \/ IsNaN(b) THEN NaN
  ELSE Frac(a[1] * b[2] + b[1] * a[2], a[2] * b[2])

FNeg(a) == <<-a[1], a[2]>>

FSub(a, b) == FAdd(a, FNeg(b))

FScale(k, a) == IF IsNaN(a) THEN NaN ELSE Frac(k * a[1], a[2])

\* a / k; 0 / 0 is NaN
FDiv(a, k) == IF IsNaN(a) \/ k = 0 THEN NaN ELSE Frac(a[1], a[2] * k)

FLess(a, b) == a[1] * b[2] < b[1] * a[2]

\* ------------------------------------------------------------ type deriver
\* A leaf is [dtype, shape]; the unbound (None) dimension is written -1.  A
\* leaf of dtype "object" is a value tf.convert_to_tensor cannot convert.
UnboundDim == -1

DTypes == {"float32", "int32"}

Shapes == UNION {[1..n -> 1..MaxDim] : n \in 0..MaxRank}

Leaves ==
  [dtype : DTypes, shape : Shapes] \cup {[dtype |-> "object", shape |-> <<>>]}

\* A batch is a flat structure [container, fields]: a dict or a named tuple
\* of the fields x and y, or a list (its positions written "0", "1").
BatchKeys == {{"x"}, {"x", "y"}, {"0"}, {"0", "1"}}

ContainersOf(keys) == IF keys \subseteq {"x", "y"} THEN {"dict", "namedtuple"} ELSE {"list"}

DummyBatches ==
  UNION {[container : ContainersOf(keys), fields : [keys -> Leaves]] : keys \in BatchKeys}

DropFirst(s) == IF Len(s) = 0 THEN <<>> ELSE Tail(s)

\* tf.convert_to_tensor(tensor) raises
CannotConvert(tensor) == tensor.dtype = "object"

\* a spec that keeps the batch dimension and puts the unbound one before it
GetTensorSpecPrepend(tensor) ==
  [dtype |-> tensor.dtype, shape |-> <<UnboundDim>> \o tensor.shape]

\* _get_tensor_spec: shape=[None] + tensor.shape.dims[1:], dtype=tensor.dtype
GetTensorSpec(tensor) ==
  [dtype |-> tensor.dtype, shape |-> <<UnboundDim>> \o DropFirst(tensor.shape)]

\* if hasattr(dummy_batch, '_asdict'): dummy_batch = dummy_batch._asdict()
AsDict(dummy_batch) ==
  IF dummy_batch.container = "namedtuple"
  THEN [dummy_batch EXCEPT !.container = "dict"]
  ELSE dummy_batch

NoBatchSpec == [container |-> "none", fields |-> <<>>]

\* tensor_spec_for_batch: [raised, spec]; tf.nest.map_structure keeps the
\* structure and maps every leaf, and fails where a leaf's conversion fails.
tensor_spec_for_batch(dummy_batch) ==
  LET batch == AsDict(dummy_batch)
  IN  IF \E k \in DOMAIN batch.fields : CannotConvert(batch.fields[k])
      THEN [raised |-> TRUE, spec |-> NoBatchSpec]
      ELSE [raised |-> FALSE,
            spec |-> [container |-> batch.container,
                      fields |-> [k \in DOMAIN batch.fields |->
                                    GetTensorSpec(batch.fields[k])]]]

\* ---------------------------------------------------------- configuration
\* What a model factory returns: a tf.keras.models.Model, some other callable
\* object (a Layer, a function), a callable that raises on the dummy input,
\* or an object that cannot be called.
ModelKinds == {"keras_model", "callable_object", "rejects_input", "not_callable"}

\* type(m)
TypeName(kind) ==
  CASE kind = "keras_model" -> "tf.keras.models.Model"
    [] kind = "callable_object" -> "tf.keras.layers.Layer"
    [] kind = "rejects_input" -> "function"
    [] OTHER -> "int"

\* train_discriminator_dp_average_query: None, or a DPQuery (without or with
\* noise).
NoQuery == "None"
Queries == {NoQuery, "dp_query_no_noise", "dp_query_gaussian"}

\* the dummy batches of the training runs
dummy_gen_input ==
  [container |-> "dict", fields |-> [x \in {"x"} |-> [dtype |-> "float32", shape |-> <<1, 2>>]]]

dummy_real_data ==
  [container |-> "dict", fields |-> [x \in {"x"} |-> [dtype |-> "float32", shape |-> <<2, 2>>]]]

Configs ==
  [generator_model_fn : ModelKinds,
   discriminator_model_fn : ModelKinds,
   discriminator_varies : BOOLEAN,
   dummy_gen_input : {dummy_gen_input},
   dummy_real_data : {dummy_real_data},
   train_discriminator_dp_average_query : Queries]

\* the contexts built to derive the types of a dummy batch
DeriverConfigs ==
  [generator_model_fn : {"keras_model"},
   discriminator_model_fn : {"keras_model"},
   discriminator_varies : {FALSE},
   dummy_gen_input : DummyBatches,
   dummy_real_data : {dummy_real_data, [dummy_real_data EXCEPT !.fields["x"].dtype = "object"]},
   train_discriminator_dp_average_query : {NoQuery}]

\* The weights of a freshly built model and their TensorSpec.
InitialGeneratorWeights == 0
InitialDiscriminatorWeights == <<0, 1>>

\* vars_to_type
vars_to_type(kind) == [dtype |-> "float32", shape |-> <<1>>]

\* The type of the weights of the discriminator a later call of
\* discriminator_model_fn returns: that of the first one, unless the factory
\* builds a different network from call to call (cfg.discriminator_varies).
LaterDiscriminatorWeightsType(cfg) ==
  IF cfg.discriminator_varies
  THEN [dtype |-> "float32", shape |-> <<2>>]
  ELSE vars_to_type(cfg.discriminator_model_fn)

\* The models a factory call returns are numbered in the order of the calls.
ModelsMadeBy(name) ==
  <<[factory |-> "generator_model_fn", made_by |-> name],
    [factory |-> "discriminator_model_fn", made_by |-> name]>>

\* ---------------------------------------------------- aggregation process
\* tff.aggregators.MeanFactory().create(value_type, weight_type): a weighted
\* process ("standard stateless weighted aggregation").
\* tff.aggregators.DifferentiallyPrivateFactory(query).create(value_type):
\* takes no weight, "it just uniformly weights the clients".
MeanProcess ==
  [kind |-> "mean", is_weighted |-> TRUE, query |-> NoQuery,
   weight_type |-> "float32"]

DPProcess(query) ==
  [kind |-> "dp", is_weighted |-> FALSE, query |-> query, weight_type |-> "none"]

\* state_type.member of the process
AggregationStateType(proc) == IF proc.kind = "mean" THEN "<>" ELSE "<int32>"

\* aggregation_process.initialize()
AggInitialize(proc) == IF proc.kind = "mean" THEN <<>> ELSE <<0>>

RECURSIVE FSum(_)
FSum(seq) == IF seq = <<>> THEN <<0, 1>> ELSE FAdd(Head(seq), FSum(Tail(seq)))

RECURSIVE ISum(_)
ISum(seq) == IF seq = <<>> THEN 0 ELSE Head(seq) + ISum(Tail(seq))

\* The orders in which a reduction over the clients may take their values.
Orders ==
  {o \in [1..NumClients -> Clients] :
     \A i, j \in 1..NumClients : i # j => o[i] # o[j]}

\* a reduction that keeps the first value it takes
MeanNextFirst(state, value, weight, order) ==
  [state |-> state, result |-> value[order[1]]]

\* next(state, value, weight) of the mean process: sum(w * v) / sum(w), the
\* clients' values taken in the order `order`
MeanNext(state, value, weight, order) ==
  [state |-> state,
   result |->
     FDiv(FSum([i \in DOMAIN order |-> FScale(weight[order[i]], value[order[i]])]),
          ISum([i \in DOMAIN order |-> weight[order[i]]]))]

\* clipping of one record to the query's norm bound (1)
Clip(v) ==
  IF IsNaN(v) THEN v
  ELSE IF FLess(<<1, 1>>, v) THEN <<1, 1>>
  ELSE IF FLess(v, <<-1, 1>>) THEN <<-1, 1>>
  ELSE v

\* the noise a query may add to the clipped sum
Noises(query) == IF query = "dp_query_gaussian" THEN {-1, 1} ELSE {0}

\* next(state, value) of the differentially private process: every record
\* clipped, summed, noised, divided by the number of records; the state
\* counts the records clipped so far.
DPNext(state, value, z, order) ==
  [state |-> <<state[1] + Cardinality({c \in DOMAIN value : Clip(value[c]) # value[c]})>>,
   result |->
     FDiv(FAdd(FSum([i \in DOMAIN order |-> Clip(value[order[i]])]), <<z, 1>>),
          Len(order))]

\* A call of aggregation_process.next with the arguments args
\* [state, value, weighted, weight]; the call form has to match the process.
NextCallAccepted(proc, args) == args.weighted = proc.is_weighted

ProcessNext(proc, args, z, order) ==
  IF proc.kind = "mean"
  THEN MeanNext(args.state, args.value, args.weight, order)
  ELSE DPNext(args.state, args.value, z, order)

\* ------------------------------------------------ gan_training_tf_fns
\* server_initial_state(generator, discriminator)
server_initial_state ==
  [generator_weights |-> InitialGeneratorWeights,
   discriminator_weights |-> InitialDiscriminatorWeights,
   counters |-> 0]

\* client_computation(gen_inputs, real_data, from_server, ...): the local
\* data of a client is [target, update_weight, examples].
client_computation(data, from_server) ==
  [discriminator_weights_delta |->
     FSub(<<data.target + from_server.generator_weights, 1>>,
          from_server.discriminator_weights),
   update_weight |-> data.update_weight,
   counters |-> data.examples]

\* server_computation(server_state, gen_inputs, client_output, ...,
\*                    new_aggregation_state)
server_computation(state, gen_inputs, client_output, new_aggregation_state) ==
  [generator_weights |-> state.generator_weights + gen_inputs,
   discriminator_weights |->
     FAdd(state.discriminator_weights, client_output.discriminator_weights_delta),
   counters |-> state.counters + client_output.counters,
   aggregation_state |-> new_aggregation_state]

\* ------------------------------------------------------------ placeholders
\* the values of variables that hold nothing yet
NoState ==
  [generator_weights |-> 0, discriminator_weights |-> <<0, 1>>,
   counters |-> 0, aggregation_state |-> <<>>]

NoPayload == [generator_weights |-> 0, discriminator_weights |-> <<0, 1>>]

NoOutput ==
  [discriminator_weights_delta |-> <<0, 1>>, update_weight |-> 0, counters |-> 0]

NoAggregationArgs ==
  [state |-> <<>>, value |-> <<>>, weighted |-> FALSE, weight |-> <<>>]

NoAggregationOutput == [state |-> <<>>, result |-> <<0, 1>>]

NoSums == [update_weight |-> 0, counters |-> 0]

NoServerArgs ==
  [server_state |-> NoState, gen_inputs |-> 0, client_output |-> NoOutput,
   new_aggregation_state |-> <<>>]

\* ------------------------------------------------------- training context
NoError == [type |-> "none", message |-> <<>>]

\* TypeError('Expected `tf.keras.models.Model`, found {}.'.format(type(m)))
NotAModelError(kind) ==
  [type |-> "TypeError",
   message |-> <<"Expected", "tf.keras.models.Model", "found", TypeName(kind)>>]

\* calling an object that is not callable
NotCallableError(kind) ==
  [type |-> "TypeError", message |-> <<TypeName(kind), "object is not callable">>]

\* the call m(dummy) raises an error of its own
CallError(kind) ==
  [type |-> "ValueError", message |-> <<TypeName(kind), "cannot take the input">>]

\* the model checks without the isinstance test
ModelCheckCallable(kind) ==
  IF kind = "not_callable" THEN NotCallableError(kind)
  ELSE IF kind = "rejects_input" THEN CallError(kind)
  ELSE NoError

\* m = model_fn(); _ = m(dummy); isinstance(m, tf.keras.models.Model)
ModelCheck(kind) ==
  IF kind = "not_callable" THEN NotCallableError(kind)
  ELSE IF kind = "rejects_input" THEN CallError(kind)
  ELSE IF kind # "keras_model" THEN NotAModelError(kind)
  ELSE NoError

\* the mean process whatever the query
SelectMeanProcess(query) == MeanProcess

\* the choice of the aggregation process
SelectAggregationProcess(query) ==
  IF query # NoQuery THEN DPProcess(query) ELSE MeanProcess

\* tf.convert_to_tensor on a value it cannot convert
ConvertError ==
  [type |-> "ValueError", message |-> <<"convert_to_tensor">>]

NoGan ==
  [gen_input_type |-> NoBatchSpec, real_data_type |-> NoBatchSpec,
   generator_weights_type |-> <<>>, discriminator_weights_type |-> <<>>,
   from_server_type |-> <<>>,
   aggregation_process |->
     [kind |-> "none", is_weighted |-> FALSE, query |-> NoQuery,
      weight_type |-> "none"]]

\* GanFnsAndTypes.__attrs_post_init__: the error raised (NoError if none) and
\* the context built.
attrs_post_init(cfg) ==
  LET gen_input == tensor_spec_for_batch(cfg.dummy_gen_input)
      real_data == tensor_spec_for_batch(cfg.dummy_real_data)
      gen_error == ModelCheck(cfg.generator_model_fn)
      disc_error == ModelCheck(cfg.discriminator_model_fn)
      gw_type == vars_to_type(cfg.generator_model_fn)
      dw_type == vars_to_type(cfg.discriminator_model_fn)
      sample == ModelsMadeBy("attrs_post_init")
  IN  IF gen_input.raised \/ real_data.raised
      THEN [error |-> ConvertError, gan |-> NoGan, models |-> <<>>]
      ELSE IF gen_error # NoError
      THEN [error |-> gen_error, gan |-> NoGan, models |-> <<sample[1]>>]
      ELSE IF disc_error # NoError
      THEN [error |-> disc_error, gan |-> NoGan, models |-> sample]
      ELSE [error |-> NoError,
            models |-> sample,
            gan |-> [gen_input_type |-> gen_input.spec,
                     real_data_type |-> real_data.spec,
                     generator_weights_type |-> gw_type,
                     discriminator_weights_type |-> dw_type,
                     from_server_type |->
                       [generator_weights |-> gw_type,
                        discriminator_weights |-> dw_type],
                     aggregation_process |->
                       SelectAggregationProcess(
                         cfg.train_discriminator_dp_average_query)]]

\* ------------------------------------------------- building the process
\* The body of a tff.tf_computation runs once, when the decorator traces it:
\* the factory calls in it happen then, `made` models having been made before.
NoType == [dtype |-> "none", shape |-> <<>>]

\* the type of a ClientOutput whose delta has the type dw_type
ClientOutputType(dw_type) ==
  [discriminator_weights_delta |-> dw_type,
   update_weight |-> "float32",
   counters |-> "int32"]

StateType(gw_type, dw_type, aggregation_state_type) ==
  [generator_weights |-> gw_type,
   discriminator_weights |-> dw_type,
   counters |-> "int32",
   aggregation_state |-> aggregation_state_type]

NoServerComputationTypes ==
  [server_state |-> StateType(NoType, NoType, "none"),
   client_output |-> ClientOutputType(NoType),
   new_aggregation_state |-> "none"]

NoBuilt ==
  [log |-> <<>>,
   client_output_type |-> ClientOutputType(NoType),
   server_state_type |-> StateType(NoType, NoType, "none"),
   server_computation_types |-> NoServerComputationTypes,
   server_computation_arguments |-> NoServerComputationTypes]

\* a client computation that hands on the context's sample models
build_client_computation_sampled(cfg, made) ==
  [models |-> <<>>,
   passed |-> [to |-> "client_computation", generator |-> 1, discriminator |-> 2],
   result_type |-> ClientOutputType(vars_to_type(cfg.discriminator_model_fn))]

\* build_client_computation(gan)
build_client_computation(cfg, made) ==
  [models |-> ModelsMadeBy("client_computation"),
   passed |-> [to |-> "client_computation",
               generator |-> made + 1, discriminator |-> made + 2],
   result_type |-> ClientOutputType(LaterDiscriminatorWeightsType(cfg))]

\* build_server_initial_state_comp(gan)
build_server_initial_state_comp(cfg, made) ==
  [models |-> ModelsMadeBy("server_initial_state"),
   passed |-> [to |-> "server_initial_state",
               generator |-> made + 1, discriminator |-> made + 2],
   result_type |-> [generator_weights |-> vars_to_type(cfg.generator_model_fn),
                    discriminator_weights |-> LaterDiscriminatorWeightsType(cfg),
                    counters |-> "int32"]]

\* build_server_computation(gan, server_state_type, client_output_type,
\*                          aggregation_state_type)
build_server_computation(made, server_state_type, client_output_type, aggregation_state_type) ==
  [models |-> ModelsMadeBy("server_computation"),
   passed |-> [to |-> "server_computation",
               generator |-> made + 1, discriminator |-> made + 2],
   parameter_types |-> [server_state |-> server_state_type,
                        client_output |-> client_output_type,
                        new_aggregation_state |-> aggregation_state_type]]

\* a call that takes an argument of any type
TypeAcceptedAny(parameter, argument) == TRUE

\* the type check of a call in a federated computation, made when the
\* computation is traced
TypeAccepted(parameter, argument) == parameter = argument

BuildError == [type |-> "TypeError", message |-> <<"build_gan_training_process">>]

\* build_gan_training_process(gan): the computations in the order they are
\* built, the models their bodies make, and the error of the first call whose
\* argument is not of the parameter's type.
build_gan_training_process(cfg, g, made) ==
  LET proc == g.aggregation_process
      client == build_client_computation(cfg, made)
      client_output_type == client.result_type
      initial == build_server_initial_state_comp(cfg, made + 2)
      state_type == StateType(initial.result_type.generator_weights,
                              initial.result_type.discriminator_weights,
                              AggregationStateType(proc))
      from_server == [generator_weights |-> state_type.generator_weights,
                      discriminator_weights |-> state_type.discriminator_weights]
      clients_mapped == TypeAccepted(g.from_server_type, from_server)
      aggregated == TypeAccepted(g.discriminator_weights_type,
                                 client_output_type.discriminator_weights_delta)
      aggregated_client_output ==
        [discriminator_weights_delta |-> g.discriminator_weights_type,
         update_weight |-> client_output_type.update_weight,
         counters |-> client_output_type.counters]
      server == build_server_computation(made + 4, state_type, client_output_type,
                                         AggregationStateType(proc))
      arguments == [server_state |-> state_type,
                    client_output |-> aggregated_client_output,
                    new_aggregation_state |-> AggregationStateType(proc)]
      server_mapped == TypeAccepted(server.parameter_types, arguments)
  IN  IF ~(clients_mapped /\ aggregated)
      THEN [error |-> BuildError,
            models |-> client.models \o initial.models,
            passed |-> {client.passed, initial.passed},
            built |-> [NoBuilt EXCEPT
                         !.log = <<"client_computation", "fed_server_initial_state">>,
                         !.client_output_type = client_output_type,
                         !.server_state_type = state_type]]
      ELSE [error |-> IF server_mapped THEN NoError ELSE BuildError,
            models |-> client.models \o initial.models \o server.models,
            passed |-> {client.passed, initial.passed, server.passed},
            built |-> [log |-> <<"client_computation", "fed_server_initial_state",
                                 "server_computation">>,
                       client_output_type |-> client_output_type,
                       server_state_type |-> state_type,
                       server_computation_types |-> server.parameter_types,
                       server_computation_arguments |-> arguments]]

NoCall == [computation |-> "none", generator |-> 0, discriminator |-> 0, factory_calls |-> 0]

\* An invocation of a built computation runs what was traced: it calls no
\* factory, and its models are those the body made when it was traced.
InvocationOf(name) ==
  LET traced == CHOOSE t \in models_passed : t.to = name
  IN  [computation |-> name, generator |-> traced.generator,
       discriminator |-> traced.discriminator, factory_calls |-> 0]

\* ------------------------------------------------------- training process
\* an initial state whose aggregation_state is not the process's
fed_server_initial_state_unmerged(g) ==
  [generator_weights |-> server_initial_state.generator_weights,
   discriminator_weights |-> server_initial_state.discriminator_weights,
   counters |-> server_initial_state.counters,
   aggregation_state |-> <<>>]

\* fed_server_initial_state
fed_server_initial_state(g) ==
  [generator_weights |-> server_initial_state.generator_weights,
   discriminator_weights |-> server_initial_state.discriminator_weights,
   counters |-> server_initial_state.counters,
   aggregation_state |-> AggInitialize(g.aggregation_process)]

\* fed_server_initial_state.type_signature.result
ServerStateType(g) ==
  [generator_weights |-> g.generator_weights_type,
   discriminator_weights |-> g.discriminator_weights_type,
   counters |-> "int32",
   aggregation_state |-> AggregationStateType(g.aggregation_process)]

\* the type of a ServerState value handed to run_one_round
TypeOfState(g, state) ==
  [generator_weights |-> g.generator_weights_type,
   discriminator_weights |-> g.discriminator_weights_type,
   counters |-> "int32",
   aggregation_state |->
     IF Len(state.aggregation_state) = 0 THEN "<>" ELSE "<int32>"]

\* an argument check that passes in the first round only
StateAcceptedFirstRound(g, state) ==
  TypeOfState(g, state) = ServerStateType(g) /\ rounds = 0

\* the argument check of the federated computation run_one_round
StateAccepted(g, state) == TypeOfState(g, state) = ServerStateType(g)

\* from_server = FromServer(generator_weights=..., discriminator_weights=...)
FromServerOf(state) ==
  [generator_weights |-> state.generator_weights,
   discriminator_weights |-> state.discriminator_weights]

\* a broadcast that reaches the first client only
federated_broadcast_first(value) ==
  [c \in Clients |-> IF c = 1 THEN value ELSE NoPayload]

\* tff.federated_broadcast
federated_broadcast(value) == [c \in Clients |-> value]

\* client_outputs.discriminator_weights_delta, a value at every client
ClientDeltas(outputs) ==
  [c \in Clients |-> outputs[c].discriminator_weights_delta]

\* every client given the weight 1
UniformWeights(outputs) == [c \in Clients |-> 1]

\* client_outputs.update_weight
ClientWeights(outputs) == [c \in Clients |-> outputs[c].update_weight]

\* client_outputs.counters
ClientCounters(outputs) == [c \in Clients |-> outputs[c].counters]

\* the weighted call form whatever the process
AggregationArgsWeighted(proc, state, outputs) ==
  [state |-> state.aggregation_state,
   value |-> ClientDeltas(outputs),
   weighted |-> TRUE,
   weight |-> ClientWeights(outputs)]

\* the arguments of aggregation_process.next
AggregationArgs(proc, state, outputs) ==
  IF proc.is_weighted
  THEN [state |-> state.aggregation_state,
        value |-> ClientDeltas(outputs),
        weighted |-> TRUE,
        weight |-> ClientWeights(outputs)]
  ELSE [state |-> state.aggregation_state,
        value |-> ClientDeltas(outputs),
        weighted |-> FALSE,
        weight |-> <<>>]

\* a sum that keeps the first value it takes
federated_sum_first(values, order) == values[order[1]]

\* tff.federated_sum, the clients' values taken in the order `order`
federated_sum(values, order) == ISum([i \in DOMAIN order |-> values[order[i]]])

\* a server step handed a delta scaled by the summed update_weight
AggregatedClientOutputScaled(agg_out, weight_sum, counter_sum) ==
  [discriminator_weights_delta |-> FScale(weight_sum, agg_out.result),
   update_weight |-> weight_sum,
   counters |-> counter_sum]

\* aggregated_client_output = ClientOutput(...)
AggregatedClientOutput(agg_out, weight_sum, counter_sum) ==
  [discriminator_weights_delta |-> agg_out.result,
   update_weight |-> weight_sum,
   counters |-> counter_sum]

\* a server step fed the state retained from the previous invocation
ServerArgsRetained(state, gen_inputs, agg_out, weight_sum, counter_sum) ==
  [server_state |-> server_state,
   gen_inputs |-> gen_inputs,
   client_output |-> AggregatedClientOutput(agg_out, weight_sum, counter_sum),
   new_aggregation_state |-> agg_out.state]

\* a server step handed the aggregation state the round started with
ServerArgsOldAggregation(state, gen_inputs, agg_out, weight_sum, counter_sum) ==
  [server_state |-> state,
   gen_inputs |-> gen_inputs,
   client_output |-> AggregatedClientOutput(agg_out, weight_sum, counter_sum),
   new_aggregation_state |-> state.aggregation_state]

\* the arguments of the federated_map of server_computation
ServerArgs(state, gen_inputs, agg_out, weight_sum, counter_sum) ==
  [server_state |-> state,
   gen_inputs |-> gen_inputs,
   client_output |-> AggregatedClientOutput(agg_out, weight_sum, counter_sum),
   new_aggregation_state |-> agg_out.state]

\* ------------------------------------------------------------ round data
\* The local data of a client, as what the training functions make of it:
\* the target its discriminator update moves to, its update weight and its
\* number of examples.
ClientDatasets ==
  { [target |-> 2, update_weight |-> 2, examples |-> 2],
    [target |-> 0, update_weight |-> 1, examples |-> 2],
    [target |-> 2, update_weight |-> 0, examples |-> 1] }

\* the server's generator inputs, as the step the generator takes on them
ServerDatasets == {0, 1}

StepNames == {"broadcast", "client", "aggregate", "sum", "server"}

\* A ServerState built by hand, of the type of the process's states.
HandBuiltState(g) ==
  [generator_weights |-> 5, discriminator_weights |-> <<1, 2>>,
   counters |-> 7, aggregation_state |-> AggInitialize(g.aggregation_process)]

\* A ServerState whose aggregation_state is that of the other process.
IllTypedState(g) ==
  [generator_weights |-> 0, discriminator_weights |-> <<0, 1>>,
   counters |-> 0,
   aggregation_state |-> IF g.aggregation_process.kind = "mean" THEN <<0>> ELSE <<>>]

vars ==
  <<config, pc, gan, error, client_data, server_data, server_state, rounds,
    round_in, client_input, client_args, client_outputs, arrived, steps,
    consumed, aggregation_args, aggregation_output, sums, server_args, noise,
    outcome, log, reruns, next_chain, chain_ok, chain_len, round_chain,
    used_processes, model_instances, models_passed, built, last_call>>

context_vars ==
  <<config, gan, client_data, server_data, model_instances, models_passed, built>>

round_locals ==
  <<client_input, client_args, client_outputs, arrived, steps, consumed,
    aggregation_args, sums, server_args, last_call>>

\* what a finished round leaves of the clients' part of it
ClearClients ==
  /\ client_input' = [c \in Clients |-> NoPayload]
  /\ client_args' = [c \in Clients |-> NoPayload]
  /\ client_outputs' = [c \in Clients |-> NoOutput]
  /\ arrived' = {}

history_vars == <<log, reruns, next_chain, chain_ok, chain_len, used_processes>>

ClearRound ==
  /\ ClearClients
  /\ steps' = {}
  /\ consumed' = [s \in StepNames |-> {}]
  /\ aggregation_args' = NoAggregationArgs
  /\ sums' = NoSums
  /\ server_args' = NoServerArgs
  /\ last_call' = NoCall

\* before GanFnsAndTypes(...) is called
NothingBuilt ==
  /\ pc = "new"
  /\ gan = NoGan
  /\ error = NoError
  /\ server_state = NoState
  /\ rounds = 0
  /\ round_in = NoState
  /\ client_input = [c \in Clients |-> NoPayload]
  /\ client_args = [c \in Clients |-> NoPayload]
  /\ client_outputs = [c \in Clients |-> NoOutput]
  /\ arrived = {}
  /\ steps = {}
  /\ consumed = [s \in StepNames |-> {}]
  /\ aggregation_args = NoAggregationArgs
  /\ aggregation_output = NoAggregationOutput
  /\ sums = NoSums
  /\ server_args = NoServerArgs
  /\ noise = 0
  /\ outcome = "none"
  /\ log = {}
  /\ reruns = FALSE
  /\ next_chain = <<>>
  /\ chain_ok = FALSE
  /\ chain_len = 0
  /\ round_chain = [state |-> <<>>, ok |-> FALSE, len |-> 0]
  /\ used_processes = {}
  /\ model_instances = <<>>
  /\ models_passed = {}
  /\ built = NoBuilt
  /\ last_call = NoCall

Init ==
  /\ config \in Configs
  /\ client_data \in [Clients -> ClientDatasets]
  /\ server_data \in ServerDatasets
  /\ NothingBuilt

\* the construction of a context on a dummy batch of any form
DeriverInit ==
  /\ config \in DeriverConfigs
  /\ client_data = [c \in Clients |-> [target |-> 0, update_weight |-> 1, examples |-> 2]]
  /\ server_data = 0
  /\ NothingBuilt

\* ---------------------------------------------------------------- actions
\* GanFnsAndTypes(...): __attrs_post_init__ builds the context or raises.
Construct ==
  /\ pc = "new"
  /\ LET made == attrs_post_init(config)
     IN  /\ error' = made.error
         /\ gan' = made.gan
         /\ model_instances' = made.models
         /\ pc' = IF made.error = NoError THEN "context" ELSE "config_error"
  /\ UNCHANGED <<config, client_data, server_data, models_passed, built,
                 server_state, rounds, round_in, aggregation_output, noise,
                 outcome, round_chain>>
  /\ UNCHANGED round_locals
  /\ UNCHANGED history_vars

\* build_gan_training_process(gan)
BuildProcess ==
  /\ pc = "context"
  /\ LET process == build_gan_training_process(config, gan, Len(model_instances))
     IN  /\ error' = process.error
         /\ model_instances' = model_instances \o process.models
         /\ models_passed' = process.passed
         /\ built' = process.built
         /\ pc' = IF process.error = NoError THEN "process" ELSE "build_error"
  /\ UNCHANGED <<server_state, rounds, round_in, aggregation_output,
                 noise, outcome, round_chain>>
  /\ UNCHANGED <<config, gan, client_data, server_data>>
  /\ UNCHANGED round_locals
  /\ UNCHANGED history_vars

\* process.initialize()
Initialize ==
  /\ pc = "process"
  /\ server_state' = fed_server_initial_state(gan)
  /\ next_chain' = AggInitialize(gan.aggregation_process)
  /\ chain_ok' = TRUE
  /\ chain_len' = 0
  /\ used_processes' = used_processes \cup {gan.aggregation_process}
  /\ pc' = "idle"
  /\ last_call' = InvocationOf("server_initial_state")
  /\ UNCHANGED <<error, rounds, round_in, aggregation_output, noise, outcome,
                 round_chain, log, reruns>>
  /\ UNCHANGED context_vars
  /\ UNCHANGED <<client_input, client_args, client_outputs, arrived, steps,
                 consumed, aggregation_args, sums, server_args>>

\* The states a caller may hand to process.next: the one it holds, the
\* initial one again, or one it built itself.
CallerStates ==
  {server_state, fed_server_initial_state(gan), HandBuiltState(gan),
   IllTypedState(gan)}

\* The lineage of the state handed to a round.
ChainOf(state) ==
  IF state = server_state
  THEN [state |-> next_chain, ok |-> chain_ok, len |-> chain_len]
  ELSE IF state = fed_server_initial_state(gan)
  THEN [state |-> AggInitialize(gan.aggregation_process), ok |-> TRUE, len |-> 0]
  ELSE [state |-> <<>>, ok |-> FALSE, len |-> 0]

\* process.next(state, ...): the argument check, then lines 271-274 of
\* run_one_round (from_server and its broadcast).
StartRound(state) ==
  /\ pc = "idle"
  /\ rounds < MaxRounds
  /\ StateAccepted(gan, state)
  /\ rounds' = rounds + 1
  /\ round_in' = state
  /\ round_chain' = ChainOf(state)
  /\ client_input' = federated_broadcast(FromServerOf(state))
  /\ steps' = {"broadcast"}
  /\ client_args' = [c \in Clients |-> NoPayload]
  /\ client_outputs' = [c \in Clients |-> NoOutput]
  /\ arrived' = {}
  /\ consumed' = [s \in StepNames |-> {}]
  /\ aggregation_args' = NoAggregationArgs
  /\ aggregation_output' = NoAggregationOutput
  /\ sums' = NoSums
  /\ server_args' = NoServerArgs
  /\ last_call' = NoCall
  /\ noise' = 0
  /\ outcome' = "none"
  /\ error' = NoError
  /\ pc' = "round"
  /\ UNCHANGED server_state
  /\ UNCHANGED context_vars
  /\ UNCHANGED history_vars

\* process.next on a state of another type: a TypeError, no round runs.
RejectState(state) ==
  /\ pc = "idle"
  /\ rounds < MaxRounds
  /\ ~StateAccepted(gan, state)
  /\ rounds' = rounds + 1
  /\ error' = [type |-> "TypeError", message |-> <<"server_state">>]
  /\ outcome' = "rejected"
  /\ UNCHANGED <<pc, server_state, round_in, aggregation_output, noise,
                 round_chain>>
  /\ UNCHANGED context_vars
  /\ UNCHANGED round_locals
  /\ UNCHANGED history_vars

\* some client's output is there
SomeClientOutputAvailable == arrived # {}

\* every client's output of the current round is there
ClientOutputsAvailable == arrived = Clients

Pending(c) == c \notin arrived

\* federated_map(client_computation, ...) at client c
ClientStep(c) ==
  /\ pc = "round"
  /\ "broadcast" \in steps
  /\ Pending(c)
  /\ client_args' = [client_args EXCEPT ![c] = client_input[c]]
  /\ client_outputs' =
       [client_outputs EXCEPT ![c] = client_computation(client_data[c], client_input[c])]
  /\ arrived' = arrived \cup {c}
  /\ steps' = steps \cup {"client"}
  /\ last_call' = InvocationOf("client_computation")
  /\ UNCHANGED <<pc, error, server_state, rounds, round_in, client_input,
                 consumed, aggregation_args, aggregation_output, sums,
                 server_args, noise, outcome, round_chain>>
  /\ UNCHANGED context_vars
  /\ UNCHANGED history_vars

\* a failing round that leaves the new aggregation state in the caller's state
FailRoundInPlace(step) ==
  /\ pc' = "idle"
  /\ outcome' = "failed"
  /\ error' = [type |-> "RuntimeError", message |-> <<step>>]
  /\ round_in' = NoState
  /\ aggregation_output' = NoAggregationOutput
  /\ noise' = 0
  /\ ClearRound
  /\ server_state' =
       [server_state EXCEPT !.aggregation_state = aggregation_output.state]
  /\ UNCHANGED <<rounds, round_chain>>
  /\ UNCHANGED context_vars
  /\ UNCHANGED history_vars

\* A step of the round raises: the round is over and returns nothing.
FailRound(step) ==
  /\ pc' = "idle"
  /\ outcome' = "failed"
  /\ error' = [type |-> "RuntimeError", message |-> <<step>>]
  /\ round_in' = NoState
  /\ aggregation_output' = NoAggregationOutput
  /\ noise' = 0
  /\ ClearRound
  /\ UNCHANGED <<server_state, rounds, round_chain>>
  /\ UNCHANGED context_vars
  /\ UNCHANGED history_vars

ClientFail(c) ==
  /\ pc = "round"
  /\ "broadcast" \in steps
  /\ Pending(c)
  /\ FailRound("client")

\* gan.aggregation_process.next(...), lines 281-292.  A call whose form does
\* not fit the process is a TypeError.
AggregationNext ==
  /\ pc = "round"
  /\ ClientOutputsAvailable
  /\ "aggregate" \notin steps
  /\ LET proc == gan.aggregation_process
         args == AggregationArgs(proc, round_in, client_outputs)
     IN  /\ aggregation_args' = args
         /\ used_processes' = used_processes \cup {proc}
         /\ IF NextCallAccepted(proc, args)
            THEN /\ \E z \in Noises(proc.query), order \in Orders :
                      /\ noise' = z
                      /\ aggregation_output' = ProcessNext(proc, args, z, order)
                      /\ round_chain' =
                           [round_chain EXCEPT
                              !.state =
                                 IF round_chain.ok
                                 THEN ProcessNext(
                                        proc,
                                        [args EXCEPT !.state = round_chain.state],
                                        z, order).state
                                 ELSE <<>>,
                              !.len = round_chain.len + 1]
                 /\ steps' = steps \cup {"aggregate"}
                 /\ consumed' =
                      [consumed EXCEPT
                         !["aggregate"] = arrived]
                 /\ UNCHANGED <<pc, error, outcome>>
            ELSE /\ pc' = "idle"
                 /\ outcome' = "failed"
                 /\ error' = [type |-> "TypeError", message |-> <<"aggregate">>]
                 /\ UNCHANGED <<noise, aggregation_output, round_chain, steps,
                                consumed>>
  /\ UNCHANGED <<server_state, rounds, round_in, client_input, client_args,
                 client_outputs, arrived, sums, server_args, last_call>>
  /\ UNCHANGED context_vars
  /\ UNCHANGED <<log, reruns, next_chain, chain_ok, chain_len>>

AggregationFail ==
  /\ pc = "round"
  /\ ClientOutputsAvailable
  /\ "aggregate" \notin steps
  /\ FailRound("aggregate")

\* the two tff.federated_sum of lines 302-303
FederatedSums ==
  /\ pc = "round"
  /\ ClientOutputsAvailable
  /\ "sum" \notin steps
  /\ \E order \in Orders :
       sums' = [update_weight |-> federated_sum(ClientWeights(client_outputs), order),
                counters |-> federated_sum(ClientCounters(client_outputs), order)]
  /\ steps' = steps \cup {"sum"}
  /\ consumed' = [consumed EXCEPT !["sum"] = arrived]
  /\ UNCHANGED <<pc, error, server_state, rounds, round_in, client_input,
                 client_args, client_outputs, arrived, aggregation_args,
                 aggregation_output, server_args, noise, outcome, round_chain,
                 last_call>>
  /\ UNCHANGED context_vars
  /\ UNCHANGED history_vars

ServerStepReady == {"aggregate", "sum"} \subseteq steps

\* federated_map(server_computation, ...), lines 305-311: the new state is
\* returned to the caller.
ServerStep ==
  /\ pc = "round"
  /\ ServerStepReady
  /\ "server" \notin steps
  /\ LET args == ServerArgs(round_in, server_data, aggregation_output,
                            sums.update_weight, sums.counters)
         new_state == server_computation(args.server_state, args.gen_inputs,
                                         args.client_output,
                                         args.new_aggregation_state)
     IN  /\ server_args' = args
         /\ server_state' = new_state
         /\ reruns' = (reruns \/ \E e \in log : e.in = round_in)
         /\ log' = log \cup {[in |-> round_in, out |-> new_state, noise |-> noise]}
  /\ next_chain' = round_chain.state
  /\ chain_ok' = round_chain.ok
  /\ chain_len' = round_chain.len
  /\ steps' = steps \cup {"server"}
  /\ outcome' = "ok"
  /\ pc' = "idle"
  /\ ClearClients
  /\ aggregation_args' = NoAggregationArgs
  /\ last_call' = InvocationOf("server_computation")
  /\ UNCHANGED <<error, rounds, round_in, aggregation_output, sums, consumed,
                 noise, round_chain, used_processes>>
  /\ UNCHANGED context_vars

ServerFail ==
  /\ pc = "round"
  /\ ServerStepReady
  /\ FailRound("server")

Next ==
  \/ Construct
  \/ BuildProcess
  \/ Initialize
  \/ \E s \in CallerStates : StartRound(s)
  \/ \E s \in CallerStates : RejectState(s)
  \/ \E c \in Clients : ClientStep(c)
  \/ \E c \in Clients : ClientFail(c)
  \/ AggregationNext
  \/ AggregationFail
  \/ FederatedSums
  \/ ServerStep
  \/ ServerFail

Spec == Init /\ [][Next]_vars

DeriverNext == Construct

DeriverSpec == DeriverInit /\ [][DeriverNext]_vars

\* ============================================================ properties
RECURSIVE RatSumOver(_, _)
RatSumOver(S, f) ==
  IF S = {} THEN <<0, 1>>
  ELSE LET c == CHOOSE x \in S : TRUE
       IN  FAdd(f[c], RatSumOver(S \ {c}, f))

RECURSIVE IntSumOver(_, _)
IntSumOver(S, f) ==
  IF S = {} THEN 0
  ELSE LET c == CHOOSE x \in S : TRUE
       IN  f[c] + IntSumOver(S \ {c}, f)

\* generator_weights and discriminator_weights of the round's ServerState
PayloadOfRound ==
  [generator_weights |-> round_in.generator_weights,
   discriminator_weights |-> round_in.discriminator_weights]

DeltaOf(c) == client_outputs[c].discriminator_weights_delta
WeightOf(c) == client_outputs[c].update_weight

\* C1: in a round every client step is invoked with the same FromServer
\* payload, and that payload is exactly the generator_weights and the
\* discriminator_weights of the ServerState given to the round.
C1_SamePayload ==
  pc = "round" =>
    /\ \A c \in Clients : client_input[c] = PayloadOfRound
    /\ \A c \in arrived : client_args[c] = PayloadOfRound

C1_Witness ==
  /\ pc = "round"
  /\ arrived = Clients
  /\ round_in.counters > 0
  /\ round_in.discriminator_weights # NoPayload.discriminator_weights

AggregatedWithoutQuery ==
  /\ pc = "round"
  /\ "aggregate" \in steps
  /\ config.train_discriminator_dp_average_query = NoQuery

PlainMeanOfDeltas ==
  FDiv(RatSumOver(Clients, [c \in Clients |-> DeltaOf(c)]), NumClients)

WeightedMeanOfDeltas ==
  FDiv(RatSumOver(Clients, [c \in Clients |-> FScale(WeightOf(c), DeltaOf(c))]),
       IntSumOver(Clients, [c \in Clients |-> WeightOf(c)]))

\* C2 as claimed: with no privacy query the aggregated discriminator delta
\* is the plain arithmetic mean of the clients' deltas, whatever their
\* update_weight.
C2_PlainMean ==
  AggregatedWithoutQuery => aggregation_output.result = PlainMeanOfDeltas

\* C2, amended: with no privacy query the aggregation process is the
\* weighted one, it is handed the clients' update_weight, and the aggregated
\* delta is the update_weight-weighted mean of the clients' deltas (NaN when
\* every weight is 0); it is the plain mean when the weights are equal and
\* not 0.
C2_WeightedMean ==
  AggregatedWithoutQuery =>
    /\ gan.aggregation_process.is_weighted
    /\ aggregation_args.weighted
    /\ aggregation_output.result = WeightedMeanOfDeltas
    /\ (\A c \in Clients : WeightOf(c) = 0) => IsNaN(aggregation_output.result)
    /\ (\E w \in 1..2 : \A c \in Clients : WeightOf(c) = w)
         => aggregation_output.result = PlainMeanOfDeltas

C2_Witness ==
  /\ AggregatedWithoutQuery
  /\ ~IsNaN(aggregation_output.result)
  /\ aggregation_output.result # PlainMeanOfDeltas

\* C3: the call form of aggregation_process.next follows the process's
\* is_weighted flag alone: state, deltas and update_weights if and only if
\* the process is weighted, state and deltas otherwise; a process built from
\* a privacy query is never handed weights.
C3_CallForm ==
  aggregation_args.value # <<>> =>
    /\ aggregation_args.weighted = gan.aggregation_process.is_weighted
    /\ aggregation_args.state = round_in.aggregation_state
    /\ aggregation_args.value = [c \in Clients |-> DeltaOf(c)]
    /\ aggregation_args.weight =
         IF gan.aggregation_process.is_weighted
         THEN [c \in Clients |-> WeightOf(c)]
         ELSE <<>>
    /\ config.train_discriminator_dp_average_query # NoQuery
         => (~aggregation_args.weighted /\ aggregation_args.weight = <<>>)

C3_Witness ==
  /\ aggregation_args.value # <<>>
  /\ config.train_discriminator_dp_average_query # NoQuery
  /\ \E c, d \in Clients : WeightOf(c) # WeightOf(d)

\* C4: a round in which a step fails produces no new ServerState; until the
\* server step has returned, the caller's ServerState and the state given to
\* the round stay as they were, so no partly updated state is ever seen.
C4_FailureKeepsState ==
  [][ (pc = "round" /\ (pc' = "round" \/ outcome' = "failed"))
        => /\ server_state' = server_state
           /\ log' = log
           /\ (pc' = "round" => round_in' = round_in) ]_vars

C4_Witness ==
  /\ pc = "idle"
  /\ outcome = "failed"
  /\ error = [type |-> "RuntimeError", message |-> <<"server">>]
  /\ server_state # fed_server_initial_state(gan)
  /\ server_state \in {e.out : e \in log}

StepOrder ==
  /\ arrived # {} => "broadcast" \in steps
  /\ "client" \in steps => "broadcast" \in steps
  /\ "aggregate" \in steps => consumed["aggregate"] = Clients
  /\ "sum" \in steps => consumed["sum"] = Clients
  /\ "server" \in steps =>
       /\ {"broadcast", "client", "aggregate", "sum"} \subseteq steps
       /\ server_args.client_output.discriminator_weights_delta
            = aggregation_output.result

\* C5 as claimed: broadcast, client steps, aggregation next, server step in
\* this order, and aggregation next is the only step that reads the full set
\* of client outputs.
C5_OnlyAggregationReadsAll ==
  /\ StepOrder
  /\ \A s \in steps : consumed[s] = Clients => s = "aggregate"

\* C5, amended: the same order; the steps that read the full set of client
\* outputs are aggregation next and the federated sums of update_weight and
\* counters, and the server step runs after both.
C5_StepOrder ==
  /\ StepOrder
  /\ \A s \in steps : consumed[s] = Clients => s \in {"aggregate", "sum"}

C5_Witness ==
  /\ "server" \in steps
  /\ outcome = "ok"
  /\ consumed["sum"] = Clients
  /\ consumed["aggregate"] = Clients

IdentityOrder == [i \in 1..NumClients |-> i]

\* The round on `state` with the clients' datasets `data`, every reduction
\* taking the clients in the order 1, 2, ...
RoundOn(state, data, z) ==
  LET proc == gan.aggregation_process
      outputs == [c \in Clients |-> client_computation(data[c], FromServerOf(state))]
      agg == ProcessNext(proc, AggregationArgs(proc, state, outputs), z, IdentityOrder)
      args == ServerArgs(state, server_data, agg,
                         federated_sum(ClientWeights(outputs), IdentityOrder),
                         federated_sum(ClientCounters(outputs), IdentityOrder))
  IN  server_computation(args.server_state, args.gen_inputs, args.client_output,
                         args.new_aggregation_state)

\* C6: the new ServerState of a round is the same whatever the order in
\* which the client steps ran and the reductions took the clients, and for
\* every permutation of the clients.
C6_OrderIndependent ==
  (pc = "idle" /\ outcome = "ok") =>
    \A o \in Orders :
      server_state = RoundOn(round_in, [c \in Clients |-> client_data[o[c]]], noise)

C6_Witness ==
  /\ pc = "idle"
  /\ outcome = "ok"
  /\ \E c, d \in Clients :
       /\ client_data[c].target # client_data[d].target
       /\ client_data[c].update_weight # client_data[d].update_weight
  /\ ~IsNaN(server_state.discriminator_weights)

NoiseFree == config.train_discriminator_dp_average_query # "dp_query_gaussian"

\* C7: with a noise-free aggregation process, two invocations of the round
\* on the same ServerState and the same data yield the same new ServerState.
C7_Deterministic ==
  NoiseFree => \A e1, e2 \in log : e1.in = e2.in => e1.out = e2.out

C7_Witness ==
  /\ NoiseFree
  /\ reruns
  /\ \E e \in log : e.out # e.in

NoContext == gan.aggregation_process.kind = "none"

BadModel(kind) == kind # "keras_model"

FirstBadKind ==
  IF BadModel(config.generator_model_fn)
  THEN config.generator_model_fn
  ELSE config.discriminator_model_fn

Names(message, word) == \E i \in DOMAIN message : message[i] = word

NoContextFromBadModel ==
  /\ (BadModel(config.generator_model_fn) \/ BadModel(config.discriminator_model_fn))
       => (pc \in {"new", "config_error"} /\ NoContext)
  /\ pc = "config_error"
       => (BadModel(config.generator_model_fn) \/ BadModel(config.discriminator_model_fn))

\* C8 as claimed: a factory returning a non-model makes the construction
\* fail with a type error that names that factory, and no context or
\* aggregation process is produced.
C8_ErrorNamesFactory ==
  /\ NoContextFromBadModel
  /\ pc = "config_error" =>
       /\ error.type = "TypeError"
       /\ Names(error.message,
                IF BadModel(config.generator_model_fn)
                THEN "generator_model_fn" ELSE "discriminator_model_fn")

\* C8, amended: the construction fails and produces no context and no
\* aggregation process; an object that takes the dummy input fails the
\* isinstance test with the TypeError "Expected tf.keras.models.Model, found
\* <type of the object>", worded alike for both factories and naming neither;
\* an object that cannot be called, or that raises on the dummy input, fails
\* with the error of that call.
C8_ErrorReportsFoundType ==
  /\ NoContextFromBadModel
  /\ pc = "config_error" =>
       /\ ~Names(error.message, "generator_model_fn")
       /\ ~Names(error.message, "discriminator_model_fn")
       /\ FirstBadKind = "callable_object" =>
            error = [type |-> "TypeError",
                     message |-> <<"Expected", "tf.keras.models.Model", "found",
                                   "tf.keras.layers.Layer">>]
       /\ FirstBadKind = "not_callable" => error.type = "TypeError"
       /\ FirstBadKind = "rejects_input" => error.type = "ValueError"

C8_Witness ==
  /\ pc = "config_error"
  /\ config.generator_model_fn = "keras_model"
  /\ config.discriminator_model_fn = "callable_object"
  /\ error.type = "TypeError"
  /\ NoContext

\* C9: the aggregation state handed to next is the aggregation_state of the
\* round's ServerState, the one handed to the server step is the one next
\* returned, and after k rounds from the initial state aggregation_state is
\* next applied k times to initialize().
C9_AggregationStateThreaded ==
  /\ aggregation_args.value # <<>>
       => aggregation_args.state = round_in.aggregation_state
  /\ "server" \in steps
       => server_args.new_aggregation_state = aggregation_output.state
  /\ (pc = "idle" /\ outcome = "ok")
       => server_state.aggregation_state = aggregation_output.state
  /\ (pc = "idle" /\ chain_ok) => server_state.aggregation_state = next_chain

C9_Witness ==
  /\ pc = "idle"
  /\ chain_ok
  /\ chain_len = 2
  /\ server_state.aggregation_state # AggInitialize(gan.aggregation_process)
  /\ \E e \in log : e.out = server_state /\ e.in.aggregation_state # e.out.aggregation_state
                    /\ e.in.aggregation_state # AggInitialize(gan.aggregation_process)

ProducedStates == {fed_server_initial_state(gan)} \cup {e.out : e \in log}

InitialStateMerged ==
  (pc = "idle" /\ rounds = 0) =>
    /\ server_state.generator_weights = server_initial_state.generator_weights
    /\ server_state.discriminator_weights = server_initial_state.discriminator_weights
    /\ server_state.counters = server_initial_state.counters
    /\ server_state.aggregation_state = AggInitialize(gan.aggregation_process)

\* C10 as claimed: the initial ServerState takes its weights and counters
\* from server_initial_state and its aggregation_state from initialize(), and
\* a round only runs on a state that initialization or a round produced.
C10_OnlyProducedStates ==
  /\ InitialStateMerged
  /\ pc = "round" => round_in \in ProducedStates

\* C10, amended: the same initial state; a round runs on every ServerState of
\* the type of the initial state and on no other: the states initialization
\* and the rounds produced are of that type, and so may be one the caller
\* built.
C10_InitialStateAndType ==
  /\ InitialStateMerged
  /\ pc = "round" =>
       Len(round_in.aggregation_state)
         = Len(AggInitialize(gan.aggregation_process))
  /\ pc = "idle" =>
       \A s \in ProducedStates :
         Len(s.aggregation_state) = Len(AggInitialize(gan.aggregation_process))
  /\ outcome = "rejected" => error.type = "TypeError"

C10_Witness ==
  /\ pc = "round"
  /\ round_in \notin ProducedStates
  /\ arrived = Clients
  /\ config.train_discriminator_dp_average_query # NoQuery

\* the update_weight values the clients might have supplied instead
WeightVariants == [Clients -> 0..2]

DataWithWeights(w) ==
  [c \in Clients |-> [client_data[c] EXCEPT !.update_weight = w[c]]]

\* What the round on `state` with the clients' datasets `data` hands to
\* aggregation next and to the server step.
RoundInputsOn(state, data, z) ==
  LET proc == gan.aggregation_process
      outputs == [c \in Clients |-> client_computation(data[c], FromServerOf(state))]
      args == AggregationArgs(proc, state, outputs)
      agg == ProcessNext(proc, args, z, IdentityOrder)
  IN  [aggregation_args |-> args,
       server_args |->
         ServerArgs(state, server_data, agg,
                    federated_sum(ClientWeights(outputs), IdentityOrder),
                    federated_sum(ClientCounters(outputs), IdentityOrder))]

UnweightedRound ==
  /\ ~gan.aggregation_process.is_weighted
  /\ \/ pc = "round" /\ "aggregate" \in steps
     \/ "server" \in steps

AggregationHanded == pc = "round" /\ "aggregate" \in steps

ServerHanded == "server" \in steps

WithoutSummedWeight(args) == [args EXCEPT !.client_output.update_weight = 0]

\* C11 as claimed: with an unweighted aggregation process the clients'
\* update_weight is discarded: rounds that differ only in the clients'
\* update_weight hand identical inputs to aggregation next and to the server
\* step.
C11_WeightsDiscarded ==
  UnweightedRound =>
    \A w \in WeightVariants :
      LET r == RoundInputsOn(round_in, DataWithWeights(w), noise)
      IN  /\ AggregationHanded => r.aggregation_args = aggregation_args
          /\ ServerHanded => r.server_args = server_args

\* C11, amended: with an unweighted aggregation process, rounds that differ
\* only in the clients' update_weight hand identical inputs to aggregation
\* next; the server step is handed the sum of the clients' update_weight in
\* the aggregated client output, and its inputs are identical in everything
\* but that field.
C11_WeightsOnlySummed ==
  UnweightedRound =>
    \A w \in WeightVariants :
      LET r == RoundInputsOn(round_in, DataWithWeights(w), noise)
      IN  /\ AggregationHanded => r.aggregation_args = aggregation_args
          /\ ServerHanded =>
               /\ WithoutSummedWeight(r.server_args) = WithoutSummedWeight(server_args)
               /\ r.server_args.client_output.update_weight = IntSumOver(Clients, w)
               /\ server_args.client_output.update_weight
                    = IntSumOver(Clients, [c \in Clients |-> client_data[c].update_weight])

C11_Witness ==
  /\ UnweightedRound
  /\ ServerHanded
  /\ outcome = "ok"
  /\ server_args.client_output.update_weight > 0
  /\ \E c, d \in Clients : client_data[c].update_weight # client_data[d].update_weight

ServerStepTaken == "server" \notin steps /\ "server" \in steps'

\* C12: the aggregated client output handed to the server step has
\* discriminator_weights_delta equal to the result of aggregation next,
\* update_weight equal to the sum of all clients' update_weight and counters
\* equal to the sum of all clients' counters, with either aggregation
\* process; 3 clients of 2 examples each give the counter 6.
C12_AggregatedClientOutput ==
  [][ ServerStepTaken =>
        LET handed == server_args'.client_output
        IN  /\ handed.discriminator_weights_delta = aggregation_output.result
            /\ handed.update_weight
                 = IntSumOver(Clients, [c \in Clients |-> client_outputs[c].update_weight])
            /\ handed.counters
                 = IntSumOver(Clients, [c \in Clients |-> client_outputs[c].counters])
            /\ (\A c \in Clients : client_outputs[c].counters = 2)
                 => /\ handed.counters = 2 * NumClients
                    /\ NumClients = 3 => handed.counters = 6 ]_vars

C12_Witness ==
  /\ "server" \in steps
  /\ outcome = "ok"
  /\ \A c \in Clients : client_data[c].examples = 2
  /\ server_args.client_output.counters = 2 * NumClients
  /\ server_args.client_output.update_weight > NumClients
  /\ ~IsNaN(server_args.client_output.discriminator_weights_delta)
  /\ server_args.client_output.discriminator_weights_delta # <<0, 1>>

QuerySupplied == config.train_discriminator_dp_average_query # NoQuery

ContextBuilt == pc \in {"context", "build_error", "process", "idle", "round"}

\* The process is the differentially private one exactly when a query was
\* supplied, the mean process with the weight type float32 otherwise, and
\* initialize and next were called on no other process.
ProcessChosenAtConstruction ==
  /\ ContextBuilt =>
       /\ gan.aggregation_process.kind = (IF QuerySupplied THEN "dp" ELSE "mean")
       /\ QuerySupplied =>
            gan.aggregation_process.query = config.train_discriminator_dp_average_query
       /\ ~QuerySupplied => gan.aggregation_process.weight_type = "float32"
  /\ ~ContextBuilt => gan.aggregation_process.kind = "none"
  /\ used_processes \subseteq {gan.aggregation_process}
  /\ pc \in {"idle", "round"} => used_processes = {gan.aggregation_process}

\* C13 as claimed: the process is chosen once, at construction, the
\* differentially private one iff a query was supplied, the same process is
\* used by initialization and by every round, and the process built from a
\* privacy query is a weighted one.
C13_QueryProcessWeighted ==
  /\ ProcessChosenAtConstruction
  /\ (ContextBuilt /\ QuerySupplied) => gan.aggregation_process.is_weighted

\* C13, amended: the same choice and the same use; the process built from a
\* privacy query is the unweighted one, the mean process the weighted one.
C13_QueryProcessUnweighted ==
  /\ ProcessChosenAtConstruction
  /\ ContextBuilt => (gan.aggregation_process.is_weighted <=> ~QuerySupplied)
  /\ (pc = "round" /\ "aggregate" \in steps)
       => (aggregation_args.weighted <=> ~QuerySupplied)

C13_Witness ==
  /\ pc = "round"
  /\ rounds = 2
  /\ "aggregate" \in steps
  /\ QuerySupplied
  /\ ~gan.aggregation_process.is_weighted
  /\ used_processes = {DPProcess(config.train_discriminator_dp_average_query)}

ServerStateFields ==
  {"generator_weights", "discriminator_weights", "counters", "aggregation_state"}

\* C14: the round transition has no terminal condition and keeps the shape
\* of the state: whenever the process is idle, after any number of rounds,
\* the ServerState is a record of exactly the fields generator_weights,
\* discriminator_weights, counters and aggregation_state, of the type of the
\* initial state, and a round can be started on it again.
C14_RoundAlwaysEnabled ==
  pc = "idle" =>
    /\ DOMAIN server_state = ServerStateFields
    /\ DOMAIN server_state = DOMAIN fed_server_initial_state(gan)
    /\ TypeOfState(gan, server_state)
         = TypeOfState(gan, fed_server_initial_state(gan))
    /\ rounds < MaxRounds => ENABLED StartRound(server_state)

C14_Witness ==
  /\ pc = "idle"
  /\ outcome = "ok"
  /\ rounds = MaxRounds - 1
  /\ server_state \in {e.out : e \in log}
  /\ server_state # fed_server_initial_state(gan)
  /\ ENABLED StartRound(server_state)

\* ---- the type deriver, under DeriverSpec
Constructed == pc # "new"

GenInputLeaves == config.dummy_gen_input.fields

Rank(leaf) == Len(leaf.shape)

\* a leaf that is no array with a dtype and at least one dimension
InvalidLeaf(leaf) == leaf.dtype \notin DTypes \/ Rank(leaf) = 0

ValidBatch(batch) == \A k \in DOMAIN batch.fields : ~InvalidLeaf(batch.fields[k])

\* C15: tensor_spec_for_batch fails for every leaf that cannot be coerced
\* into an array with a dtype and at least one dimension; a rank-0 leaf is
\* rejected and given no signature.
C15_ScalarRejected ==
  (Constructed /\ \E k \in DOMAIN GenInputLeaves : InvalidLeaf(GenInputLeaves[k]))
    => /\ pc = "config_error"
       /\ error.type # "none"
       /\ gan.gen_input_type = NoBatchSpec

\* C16: for every valid dummy batch, a named tuple taken as the mapping of
\* its fields, tensor_spec_for_batch returns a structure of the same leaves
\* in which every leaf has the dtype of the input leaf and its shape, but
\* for the leading dimension, which is unbound.
C16_DerivedSignature ==
  (Constructed /\ ValidBatch(config.dummy_gen_input) /\ ValidBatch(config.dummy_real_data))
    => /\ pc = "context"
       /\ gan.gen_input_type.container =
            (IF config.dummy_gen_input.container = "namedtuple"
             THEN "dict" ELSE config.dummy_gen_input.container)
       /\ DOMAIN gan.gen_input_type.fields = DOMAIN GenInputLeaves
       /\ \A k \in DOMAIN GenInputLeaves :
            LET derived == gan.gen_input_type.fields[k]
                leaf == GenInputLeaves[k]
            IN  /\ derived.dtype = leaf.dtype
                /\ Len(derived.shape) = Rank(leaf)
                /\ derived.shape[1] = UnboundDim
                /\ \A i \in 2..Rank(leaf) : derived.shape[i] = leaf.shape[i]

C16_Witness ==
  /\ pc = "context"
  /\ config.dummy_gen_input.container = "namedtuple"
  /\ gan.gen_input_type.container = "dict"
  /\ DOMAIN GenInputLeaves = {"x", "y"}
  /\ GenInputLeaves["x"].dtype # GenInputLeaves["y"].dtype
  /\ GenInputLeaves["x"].shape = <<2, 2>>
  /\ gan.gen_input_type.fields["x"].shape = <<UnboundDim, 2>>
  /\ Rank(GenInputLeaves["y"]) = 1

\* ---- model instances and the build of the process
ProcessBuilt == pc \in {"process", "idle", "round"}

Computations == {"server_initial_state", "client_computation", "server_computation"}

ModelIds(passed) == {passed.generator, passed.discriminator}

\* Every computation's body made a generator and a discriminator of its own
\* and handed on these two and no others: none of another computation, none
\* of the context.
OwnModelsOnly ==
  /\ \A t \in models_passed :
       /\ ModelIds(t) \subseteq DOMAIN model_instances
       /\ model_instances[t.generator]
            = [factory |-> "generator_model_fn", made_by |-> t.to]
       /\ model_instances[t.discriminator]
            = [factory |-> "discriminator_model_fn", made_by |-> t.to]
  /\ \A t, u \in models_passed : t # u => ModelIds(t) \cap ModelIds(u) = {}
  /\ \A t \in models_passed :
       \A i \in ModelIds(t) : model_instances[i].made_by # "attrs_post_init"
  /\ ProcessBuilt =>
       /\ {t.to : t \in models_passed} = Computations
       /\ model_instances[1].made_by = "attrs_post_init"
       /\ model_instances[2].made_by = "attrs_post_init"

Invoked == last_call.computation # "none"

ServerComputationProduced ==
  StateType(gan.generator_weights_type, gan.discriminator_weights_type,
            AggregationStateType(gan.aggregation_process))

Before(a, b, seq) ==
  \E i, j \in DOMAIN seq : i < j /\ seq[i] = a /\ seq[j] = b

\* C18: when the process is built, the client step and the aggregation
\* process exist before the server step is built; the server step is built
\* against the ServerState type of the initialization result, the
\* client-output type of the client step's result and the state type of the
\* aggregation process; a mismatch of these types with what the client step
\* and the aggregation produce is a TypeError of the build, before any round.
C18_TypesCheckedAtBuild ==
  /\ (\E i \in DOMAIN built.log : built.log[i] = "server_computation") =>
       /\ Before("client_computation", "server_computation", built.log)
       /\ gan.aggregation_process.kind # "none"
       /\ built.server_computation_types.server_state = built.server_state_type
       /\ built.server_computation_types.client_output = built.client_output_type
       /\ built.server_computation_types.new_aggregation_state
            = AggregationStateType(gan.aggregation_process)
  /\ ProcessBuilt =>
       /\ built.server_computation_types = built.server_computation_arguments
       /\ built.client_output_type.discriminator_weights_delta
            = gan.discriminator_weights_type
       /\ built.server_state_type = ServerComputationProduced
       /\ ~config.discriminator_varies
  /\ pc = "build_error" =>
       /\ error.type = "TypeError"
       /\ rounds = 0
       /\ log = {}
       /\ server_state = NoState
  /\ (rounds > 0 \/ log # {}) => ProcessBuilt

C18_Witness ==
  /\ pc = "build_error"
  /\ config.discriminator_varies
  /\ built.log # <<>>
  /\ built.client_output_type.discriminator_weights_delta # gan.discriminator_weights_type
  /\ rounds = 0

====
